---- MODULE Spec2Model ----
(***************************************************************************)
(* A model of the CHIP-8 machine of theothertomelliott/chip8: the Chip8    *)
(* struct and New/EmulateCycle/SetKeyDown/Beep of src/chip8.go, and the    *)
(* opcode handlers of src/chip8/logging.go (lines 30-374).                 *)
(*                                                                         *)
(* Go arrays are bounds-checked: an index outside the array is a runtime   *)
(* panic that ends the process.  A handler therefore yields one of three   *)
(* outcomes: success, a returned error, or a panic.                        *)
(***************************************************************************)
EXTENDS Integers, Sequences, FiniteSets, TLC

(***************************************************************************)
(* Sizes of the Chip8 struct's arrays and fixed addresses.                 *)
(***************************************************************************)
MemSize == 4096
GfxSize == 2048
StackSize == 16
NumRegs == 16
NumKeys == 16
RomBase == 512

(***************************************************************************)
(* Bounds of the exploration.                                              *)
(***************************************************************************)
\* ROMs of up to MemSize - RomBase + MaxOverrun bytes are loaded
MaxOverrun == 1
\* timer values 1..MaxTimer are written by the timer programs
MaxTimer == 2
\* 60Hz periods counted while a timer runs
MaxElapsed == 4
\* keys 0, 15 and 1..MaxMidKey are pressed by the host
MaxMidKey == 0
\* SetKeyDown calls counted per key
MaxPresses == 2

(***************************************************************************)
(* Fixed-width arithmetic and bit operations.                              *)
(***************************************************************************)
U8(n) == n % 256

U16(n) == n % 65536

Pow2(i) == 2 ^ i

Bit(a, i) == (a \div Pow2(i)) % 2

BitAnd(a, b) ==
  LET s[i \in 0..16] ==
        IF i = 16 THEN 0 ELSE Bit(a, i) * Bit(b, i) * Pow2(i) + s[i + 1]
  IN  s[0]

BitOr(a, b) ==
  LET s[i \in 0..16] ==
        IF i = 16 THEN 0
        ELSE (IF Bit(a, i) + Bit(b, i) > 0 THEN Pow2(i) ELSE 0) + s[i + 1]
  IN  s[0]

BitXor(a, b) ==
  LET s[i \in 0..16] ==
        IF i = 16 THEN 0
        ELSE ((Bit(a, i) + Bit(b, i)) % 2) * Pow2(i) + s[i + 1]
  IN  s[0]

(***************************************************************************)
(* The built-in font: 16 glyphs of 5 bytes.                                *)
(***************************************************************************)
chip8Fontset ==
  << 240, 144, 144, 144, 240,   32,  96,  32,  32, 112,
     240,  16, 240, 128, 240,  240,  16, 240,  16, 240,
     144, 144, 240,  16,  16,  240, 128, 240,  16, 240,
     240, 128, 240, 144, 240,  240,  16,  32,  64,  64,
     240, 144, 240, 144, 240,  240, 144, 240,  16, 240,
     240, 144, 240, 144, 144,  224, 144, 224, 144, 224,
     240, 128, 128, 128, 240,  224, 144, 144, 144, 224,
     240, 128, 240, 128, 240,  240, 128, 240, 128, 128 >>

(***************************************************************************)
(* The machine.  status is the life of the process around the machine:     *)
(* "fresh" before New, "running" once New returned a machine, "failed"     *)
(* when New returned an error, "panicked" after a runtime panic.           *)
(***************************************************************************)
VARIABLES
  status,       \* "fresh" | "running" | "failed" | "panicked"
  rom,          \* the io.Reader handed to New: [bytes, fail]
  memory,       \* Chip8.memory [4096]byte
  V,            \* Chip8.V [16]byte
  I,            \* Chip8.I uint16
  pc,           \* Chip8.pc uint16
  gfx,          \* Chip8.gfx [64*32]byte
  delayTimer,   \* Chip8.delayTimer byte
  soundTimer,   \* Chip8.soundTimer byte
  stack,        \* Chip8.stack [16]uint16
  sp,           \* Chip8.sp uint16
  key,          \* Chip8.key [16]byte
  drawFlag,     \* Chip8.drawFlag bool
  tickPending,  \* a tick is buffered in timerClock.C (capacity 1)
  beepHost,     \* the reader of Beep(): "idle" | "receiving" | "beeping"
  result,       \* the Result returned by the last EmulateCycle
  err,          \* the error returned by the last call, "nil" when none
  timerSince,   \* per timer: value last written, 60Hz periods elapsed since, periods coalesced
  drawnSince,   \* a DXYN has executed since the last DrawFlag() call, or since New
  keyCount      \* per counted key: SetKeyDown calls, and skips and captures taken on it

vars == << status, rom, memory, V, I, pc, gfx, delayTimer, soundTimer, stack,
           sp, key, drawFlag, tickPending, beepHost, result, err, timerSince,
           drawnSince, keyCount >>

machineVars == << memory, V, I, pc, gfx, delayTimer, soundTimer, stack, sp,
                  key, drawFlag >>

\* The Chip8 struct as a value, for the handlers to work on.
cpu ==
  [ memory |-> memory, V |-> V, I |-> I, pc |-> pc, gfx |-> gfx,
    delayTimer |-> delayTimer, soundTimer |-> soundTimer, stack |-> stack,
    sp |-> sp, key |-> key, drawFlag |-> drawFlag ]

\* The zero value of the struct: c := &Chip8{}
ZeroChip8 ==
  [ memory |-> [a \in 0..(MemSize - 1) |-> 0],
    V |-> [r \in 0..(NumRegs - 1) |-> 0],
    I |-> 0, pc |-> 0,
    gfx |-> [p \in 0..(GfxSize - 1) |-> 0],
    delayTimer |-> 0, soundTimer |-> 0,
    stack |-> [s \in 0..(StackSize - 1) |-> 0],
    sp |-> 0,
    key |-> [k \in 0..(NumKeys - 1) |-> 0],
    drawFlag |-> FALSE ]

\* ResultState{PC, V}
currentState(c) == [PC |-> c.pc, V |-> c.V]

\* Result{}: the zero Result
ZeroResult ==
  [ Opcode |-> 0, OpcodeType |-> "",
    Before |-> currentState(ZeroChip8), After |-> currentState(ZeroChip8) ]

(***************************************************************************)
(* Outcomes of a piece of code working on the machine.                     *)
(***************************************************************************)
Ok(c) == [c |-> c, err |-> "nil", panic |-> FALSE]

Err(c, e) == [c |-> c, err |-> e, panic |-> FALSE]

Panic(c) == [c |-> c, err |-> "nil", panic |-> TRUE]

(***************************************************************************)
(* New, initialize and loadROM.                                            *)
(***************************************************************************)
\* initialize(): pc at 0x200, everything else cleared, the font at address 0.
\* The ticker and the beep channel it creates start empty.
initialize(c) ==
  [ ZeroChip8 EXCEPT
      !.pc = RomBase,
      !.key = c.key,
      !.drawFlag = c.drawFlag,
      !.memory = [a \in 0..(MemSize - 1) |->
                    IF a < Len(chip8Fontset) THEN chip8Fontset[a + 1] ELSE 0] ]

\* loadROM with the loop bound one short: the last byte is not copied
loadROM_dropsLastByte(c, reader) ==
  LET bytes == reader.bytes
      copied == [c EXCEPT !.memory =
                   [a \in 0..(MemSize - 1) |->
                      IF a >= RomBase /\ a - RomBase < Len(bytes) - 1
                      THEN bytes[a - RomBase + 1] ELSE c.memory[a]]]
  IN  IF reader.fail THEN Err(c, "read error")
      ELSE IF Len(bytes) - 1 + RomBase > MemSize THEN Panic(copied)
      ELSE Ok(copied)

\* loadROM(rom): a reader that fails makes ReadAll, and so loadROM, return its
\* error.  Otherwise the loop c.memory[i+512] = bytes[i] runs for i = 0, 1, ...:
\* it writes every byte that fits and panics at the first index past the array.
loadROM(c, reader) ==
  LET bytes == reader.bytes
      copied == [c EXCEPT !.memory =
                   [a \in 0..(MemSize - 1) |->
                      IF a >= RomBase /\ a - RomBase < Len(bytes)
                      THEN bytes[a - RomBase + 1] ELSE c.memory[a]]]
  IN  IF reader.fail THEN Err(c, "read error")
      ELSE IF Len(bytes) + RomBase > MemSize THEN Panic(copied)
      ELSE Ok(copied)

(***************************************************************************)
(* The opcode handlers.  Each takes the machine and the opcode and yields  *)
(* an outcome; a panic keeps the assignments made before it.               *)
(***************************************************************************)
X(opcode) == (opcode \div 256) % 16

Y(opcode) == (opcode \div 16) % 16

NN(opcode) == opcode % 256

NNN(opcode) == opcode % 4096

\* disp_clear leaving the display as it is
disp_clear_keepsPixels(c) ==
  Ok([c EXCEPT !.pc = U16(c.pc + 2)])

\* case 0x00E0: clear the display
disp_clear(c) ==
  Ok([c EXCEPT !.gfx = [p \in 0..(GfxSize - 1) |-> 0], !.pc = U16(c.pc + 2)])

\* return_sub resuming at the call itself, not two bytes past it
return_sub_toTheCall(c) ==
  LET c1 == [c EXCEPT !.sp = U16(c.sp + 65535)]
  IN  IF c1.sp >= StackSize THEN Panic(c1)
      ELSE Ok([c1 EXCEPT !.pc = c1.stack[c1.sp]])

\* case 0x00EE: c.sp-- ; c.pc = c.stack[c.sp] + 2
return_sub(c) ==
  LET c1 == [c EXCEPT !.sp = U16(c.sp + 65535)]
  IN  IF c1.sp >= StackSize THEN Panic(c1)
      ELSE Ok([c1 EXCEPT !.pc = U16(c1.stack[c1.sp] + 2)])

\* opcode0x0000 with a default case that steps over the opcode it rejects
opcode0x0000_stepsOver(c, opcode) ==
  CASE NN(opcode) = 224 -> disp_clear(c)
    [] NN(opcode) = 238 -> return_sub(c)
    [] OTHER -> Err([c EXCEPT !.pc = U16(c.pc + 2)], "unknown opcode")

opcode0x0000(c, opcode) ==
  CASE NN(opcode) = 224 -> disp_clear(c)
    [] NN(opcode) = 238 -> return_sub(c)
    [] OTHER -> Err(c, "unknown opcode")

opcode0x1000(c, opcode) == Ok([c EXCEPT !.pc = NNN(opcode)])

\* c.stack[c.sp] = c.pc ; c.sp++ ; c.pc = NNN
opcode0x2000(c, opcode) ==
  IF c.sp >= StackSize THEN Panic(c)
  ELSE Ok([c EXCEPT !.stack[c.sp] = c.pc,
                    !.sp = U16(c.sp + 1),
                    !.pc = NNN(opcode)])

\* skip with the two advances exchanged
skip_onNoMatch(c, match) ==
  Ok([c EXCEPT !.pc = U16(c.pc + (IF match THEN 2 ELSE 4))])

\* pc += 4 on a match, pc += 2 otherwise
skip(c, match) == Ok([c EXCEPT !.pc = U16(c.pc + (IF match THEN 4 ELSE 2))])

opcode0x3000(c, opcode) == skip(c, c.V[X(opcode)] = NN(opcode))

opcode0x4000(c, opcode) == skip(c, c.V[X(opcode)] # NN(opcode))

opcode0x5000(c, opcode) == skip(c, c.V[X(opcode)] = c.V[Y(opcode)])

opcode0x6000(c, opcode) ==
  Ok([c EXCEPT !.V[X(opcode)] = NN(opcode), !.pc = U16(c.pc + 2)])

opcode0x7000(c, opcode) ==
  Ok([c EXCEPT !.V[X(opcode)] = U8(c.V[X(opcode)] + NN(opcode)),
               !.pc = U16(c.pc + 2)])

opcode0x9000(c, opcode) == skip(c, c.V[X(opcode)] # c.V[Y(opcode)])

opcode0xA000(c, opcode) ==
  Ok([c EXCEPT !.I = NNN(opcode), !.pc = U16(c.pc + 2)])

opcode0xB000(c, opcode) == Ok([c EXCEPT !.pc = U16(c.V[0] + NNN(opcode))])

\* The cases of opcode0x8000, each a sequence of assignments to V.
\* V[x] = V[y]
set_vx_vy(v, x, y) == [v EXCEPT ![x] = v[y]]

\* V[x] |= V[y]
or_vx_vy(v, x, y) == [v EXCEPT ![x] = BitOr(v[x], v[y])]

\* V[x] &= V[y]
and_vx_vy(v, x, y) == [v EXCEPT ![x] = BitAnd(v[x], v[y])]

\* V[x] ^= V[y]
xor_vx_vy(v, x, y) == [v EXCEPT ![x] = BitXor(v[x], v[y])]

\* V[0xF] = carry ; V[x] += V[y]
add_vx_vy(v, x, y) ==
  LET v1 == [v EXCEPT ![15] = IF v[y] > 255 - v[x] THEN 1 ELSE 0]
  IN  [v1 EXCEPT ![x] = U8(v1[x] + v1[y])]

\* V[0xF] = no borrow ; V[x] -= V[y]
sub_vx_vy(v, x, y) ==
  LET v1 == [v EXCEPT ![15] = IF v[y] > v[x] THEN 0 ELSE 1]
  IN  [v1 EXCEPT ![x] = U8(v1[x] + 256 - v1[y])]

\* V[x] = V[y] >> 1 ; V[0xF] = V[y] & 0x01
shr_vx_vy(v, x, y) ==
  LET v1 == [v EXCEPT ![x] = v[y] \div 2]
  IN  [v1 EXCEPT ![15] = v1[y] % 2]

\* V[0xF] = no borrow ; V[x] = V[y] - V[x]
subn_vx_vy(v, x, y) ==
  LET v1 == [v EXCEPT ![15] = IF v[x] > v[y] THEN 0 ELSE 1]
  IN  [v1 EXCEPT ![x] = U8(v1[y] + 256 - v1[x])]

\* V[x] = V[y] << 1 ; V[0xF] = V[y] & 0x80
shl_vx_vy(v, x, y) ==
  LET v1 == [v EXCEPT ![x] = U8(v[y] * 2)]
  IN  [v1 EXCEPT ![15] = BitAnd(v1[y], 128)]

opcode0x8000(c, opcode) ==
  LET x == X(opcode)
      y == Y(opcode)
      n == opcode % 16
      Done(v) == Ok([c EXCEPT !.V = v, !.pc = U16(c.pc + 2)])
  IN  CASE n = 0 -> Done(set_vx_vy(c.V, x, y))
        [] n = 1 -> Done(or_vx_vy(c.V, x, y))
        [] n = 2 -> Done(and_vx_vy(c.V, x, y))
        [] n = 3 -> Done(xor_vx_vy(c.V, x, y))
        [] n = 4 -> Done(add_vx_vy(c.V, x, y))
        [] n = 5 -> Done(sub_vx_vy(c.V, x, y))
        [] n = 6 -> Done(shr_vx_vy(c.V, x, y))
        [] n = 7 -> Done(subn_vx_vy(c.V, x, y))
        [] n = 14 -> Done(shl_vx_vy(c.V, x, y))
        [] OTHER -> Err(c, "unknown opcode")

\* byte(rand.Float32()*255): Float32 is in [0, 1), so the product is below 255
\* and its truncation is one of 0..254.
RandBytes == 0..254

\* V[x] = byte(rand.Float32()*255) & byte(nn), rnd being the random byte
opcode0xC000(c, opcode, rnd) ==
  Ok([c EXCEPT !.V[X(opcode)] = BitAnd(rnd, NN(opcode)), !.pc = U16(c.pc + 2)])

\* drawLoop reporting a collision for every sprite bit it draws
RECURSIVE drawLoop_flagsEveryBit(_, _, _, _, _, _)
drawLoop_flagsEveryBit(c, x, y, height, yline, xline) ==
  IF yline >= height THEN Ok(c)
  ELSE IF U16(c.I + yline) >= MemSize THEN Panic(c)
  ELSE IF xline >= 8 THEN drawLoop_flagsEveryBit(c, x, y, height, yline + 1, 0)
  ELSE LET pixel == c.memory[U16(c.I + yline)]
           index == U16(x + xline + U16((y + yline) * 64))
       IN  IF index > GfxSize \/ Bit(pixel, 7 - xline) = 0
           THEN drawLoop_flagsEveryBit(c, x, y, height, yline, xline + 1)
           ELSE IF index >= GfxSize THEN Panic(c)
           ELSE drawLoop_flagsEveryBit(
                  [c EXCEPT !.V[15] = 1, !.gfx[index] = BitXor(@, 1)],
                  x, y, height, yline, xline + 1)

\* drawLoop adding the sprite bit to the pixel, not XORing it
RECURSIVE drawLoop_addsBits(_, _, _, _, _, _)
drawLoop_addsBits(c, x, y, height, yline, xline) ==
  IF yline >= height THEN Ok(c)
  ELSE IF U16(c.I + yline) >= MemSize THEN Panic(c)
  ELSE IF xline >= 8 THEN drawLoop_addsBits(c, x, y, height, yline + 1, 0)
  ELSE LET pixel == c.memory[U16(c.I + yline)]
           index == U16(x + xline + U16((y + yline) * 64))
       IN  IF index > GfxSize \/ Bit(pixel, 7 - xline) = 0
           THEN drawLoop_addsBits(c, x, y, height, yline, xline + 1)
           ELSE IF index >= GfxSize THEN Panic(c)
           ELSE drawLoop_addsBits(
                  [c EXCEPT !.V[15] = IF c.gfx[index] = 1 THEN 1 ELSE @,
                            !.gfx[index] = U8(@ + 1)],
                  x, y, height, yline, xline + 1)

\* The loops of opcode0xD000 from row yline, column xline on.  A row starts by
\* reading memory[I+yline]; index > len(gfx) is skipped, so index = len(gfx)
\* reaches the array and panics when the sprite bit is set.
RECURSIVE drawLoop(_, _, _, _, _, _)
drawLoop(c, x, y, height, yline, xline) ==
  IF yline >= height THEN Ok(c)
  ELSE IF U16(c.I + yline) >= MemSize THEN Panic(c)
  ELSE IF xline >= 8 THEN drawLoop(c, x, y, height, yline + 1, 0)
  ELSE LET pixel == c.memory[U16(c.I + yline)]
           index == U16(x + xline + U16((y + yline) * 64))
       IN  IF index > GfxSize \/ Bit(pixel, 7 - xline) = 0
           THEN drawLoop(c, x, y, height, yline, xline + 1)
           ELSE IF index >= GfxSize THEN Panic(c)
           ELSE drawLoop(
                  [c EXCEPT !.V[15] = IF c.gfx[index] = 1 THEN 1 ELSE @,
                            !.gfx[index] = BitXor(@, 1)],
                  x, y, height, yline, xline + 1)

opcode0xD000(c, opcode) ==
  LET r == drawLoop([c EXCEPT !.V[15] = 0], c.V[X(opcode)], c.V[Y(opcode)],
                    opcode % 16, 0, 0)
  IN  IF r.panic THEN r
      ELSE Ok([r.c EXCEPT !.drawFlag = TRUE, !.pc = U16(r.c.pc + 2)])

\* skip_key_down skipping without releasing the key
skip_key_down_keepsKey(c, x) ==
  IF c.V[x] >= NumKeys THEN Panic(c)
  ELSE IF c.key[c.V[x]] # 0
       THEN Ok([c EXCEPT !.pc = U16(c.pc + 4)])
       ELSE Ok([c EXCEPT !.pc = U16(c.pc + 2)])

\* case 0x009E: skip when key V[x] is down, and release it
skip_key_down(c, x) ==
  IF c.V[x] >= NumKeys THEN Panic(c)
  ELSE IF c.key[c.V[x]] # 0
       THEN Ok([c EXCEPT !.pc = U16(c.pc + 4), !.key[c.V[x]] = 0])
       ELSE Ok([c EXCEPT !.pc = U16(c.pc + 2)])

\* skip_key_up leaving a key that is down as it is
skip_key_up_keepsKey(c, x) ==
  IF c.V[x] >= NumKeys THEN Panic(c)
  ELSE IF c.key[c.V[x]] = 0
       THEN Ok([c EXCEPT !.pc = U16(c.pc + 4)])
       ELSE Ok([c EXCEPT !.pc = U16(c.pc + 2)])

\* case 0x00A1: skip when key V[x] is up, release it otherwise
skip_key_up(c, x) ==
  IF c.V[x] >= NumKeys THEN Panic(c)
  ELSE IF c.key[c.V[x]] = 0
       THEN Ok([c EXCEPT !.pc = U16(c.pc + 4)])
       ELSE Ok([c EXCEPT !.key[c.V[x]] = 0, !.pc = U16(c.pc + 2)])

\* The switch has no default: any other low byte falls through to return result, nil.
opcode0xE000(c, opcode) ==
  CASE NN(opcode) = 158 -> skip_key_down(c, X(opcode))
    [] NN(opcode) = 161 -> skip_key_up(c, X(opcode))
    [] OTHER -> Ok(c)

\* The lowest index whose key is down, NumKeys when none is: the range loop
\* of case 0x000A stops at the first k != 0.
firstKeyDown(c) ==
  IF \E k \in 0..(NumKeys - 1) : c.key[k] # 0
  THEN CHOOSE k \in 0..(NumKeys - 1) :
         c.key[k] # 0 /\ \A j \in 0..(k - 1) : c.key[j] = 0
  ELSE NumKeys

\* get_key without the final c.key[c.V[x]] = 0: the key read stays down
get_key_keepsKey(c, x) ==
  LET k == firstKeyDown(c)
  IN  IF k < NumKeys
      THEN Ok([c EXCEPT !.V[x] = k, !.pc = U16(c.pc + 2)])
      ELSE Ok(c)

\* case 0x000A: V[x] = index and pc += 2 inside the loop, then, whether or not
\* a key was found, c.key[c.V[x]] = 0.
get_key(c, x) ==
  LET k == firstKeyDown(c)
      c1 == IF k < NumKeys
            THEN [c EXCEPT !.V[x] = k, !.pc = U16(c.pc + 2)]
            ELSE c
  IN  IF c1.V[x] >= NumKeys THEN Panic(c1)
      ELSE Ok([c1 EXCEPT !.key[c1.V[x]] = 0])

\* set_BCD with the tens computed without % 10
set_BCD_tensOfAll(c, x) ==
  LET a0 == c.I
      a1 == U16(c.I + 1)
      a2 == U16(c.I + 2)
      c1 == [c EXCEPT !.memory[a0] = c.V[x] \div 100]
      c2 == [c1 EXCEPT !.memory[a1] = c.V[x] \div 10]
      c3 == [c2 EXCEPT !.memory[a2] = (c.V[x] % 100) % 10]
  IN  IF a0 >= MemSize THEN Panic(c)
      ELSE IF a1 >= MemSize THEN Panic(c1)
      ELSE IF a2 >= MemSize THEN Panic(c2)
      ELSE Ok([c3 EXCEPT !.pc = U16(c.pc + 2)])

\* case 0x0033: three writes, at I, I+1 and I+2
set_BCD(c, x) ==
  LET a0 == c.I
      a1 == U16(c.I + 1)
      a2 == U16(c.I + 2)
      c1 == [c EXCEPT !.memory[a0] = c.V[x] \div 100]
      c2 == [c1 EXCEPT !.memory[a1] = (c.V[x] \div 10) % 10]
      c3 == [c2 EXCEPT !.memory[a2] = (c.V[x] % 100) % 10]
  IN  IF a0 >= MemSize THEN Panic(c)
      ELSE IF a1 >= MemSize THEN Panic(c1)
      ELSE IF a2 >= MemSize THEN Panic(c2)
      ELSE Ok([c3 EXCEPT !.pc = U16(c.pc + 2)])

\* case 0x0055: for i := 0; i <= x; i++ { memory[I+i] = V[i] }, from i on
RECURSIVE reg_dump(_, _, _)
reg_dump(c, x, i) ==
  IF i > x THEN Ok([c EXCEPT !.pc = U16(c.pc + 2)])
  ELSE IF U16(c.I + i) >= MemSize THEN Panic(c)
  ELSE reg_dump([c EXCEPT !.memory[U16(c.I + i)] = c.V[i]], x, i + 1)

\* reg_load stopping before Vx: i < x
RECURSIVE reg_load_belowVx(_, _, _)
reg_load_belowVx(c, x, i) ==
  IF i >= x THEN Ok([c EXCEPT !.pc = U16(c.pc + 2)])
  ELSE IF U16(c.I + i) >= MemSize THEN Panic(c)
  ELSE reg_load_belowVx([c EXCEPT !.V[i] = c.memory[U16(c.I + i)]], x, i + 1)

\* case 0x0065: for i := 0; i <= x; i++ { V[i] = memory[I+i] }, from i on
RECURSIVE reg_load(_, _, _)
reg_load(c, x, i) ==
  IF i > x THEN Ok([c EXCEPT !.pc = U16(c.pc + 2)])
  ELSE IF U16(c.I + i) >= MemSize THEN Panic(c)
  ELSE reg_load([c EXCEPT !.V[i] = c.memory[U16(c.I + i)]], x, i + 1)

opcode0xF000(c, opcode) ==
  LET x == X(opcode)
      Next2(d) == Ok([d EXCEPT !.pc = U16(c.pc + 2)])
  IN  CASE NN(opcode) = 7 -> Next2([c EXCEPT !.V[x] = c.delayTimer])
        [] NN(opcode) = 10 -> get_key(c, x)
        [] NN(opcode) = 21 -> Next2([c EXCEPT !.delayTimer = c.V[x]])
        [] NN(opcode) = 24 -> Next2([c EXCEPT !.soundTimer = c.V[x]])
        [] NN(opcode) = 30 -> Next2([c EXCEPT !.I = U16(c.I + c.V[x])])
        [] NN(opcode) = 41 -> Next2([c EXCEPT !.I = c.V[x] * 5])
        [] NN(opcode) = 51 -> set_BCD(c, x)
        [] NN(opcode) = 85 -> reg_dump(c, x, 0)
        [] NN(opcode) = 101 -> reg_load(c, x, 0)
        [] OTHER -> Err(c, "unknown opcode")

\* registerOpcodeHandlers: the map has an entry for each of the 16 high
\* nibbles, so the lookup in EmulateCycle always finds a handler.
handler(c, opcode, rnd) ==
  CASE opcode \div 4096 = 0 -> opcode0x0000(c, opcode)
    [] opcode \div 4096 = 1 -> opcode0x1000(c, opcode)
    [] opcode \div 4096 = 2 -> opcode0x2000(c, opcode)
    [] opcode \div 4096 = 3 -> opcode0x3000(c, opcode)
    [] opcode \div 4096 = 4 -> opcode0x4000(c, opcode)
    [] opcode \div 4096 = 5 -> opcode0x5000(c, opcode)
    [] opcode \div 4096 = 6 -> opcode0x6000(c, opcode)
    [] opcode \div 4096 = 7 -> opcode0x7000(c, opcode)
    [] opcode \div 4096 = 8 -> opcode0x8000(c, opcode)
    [] opcode \div 4096 = 9 -> opcode0x9000(c, opcode)
    [] opcode \div 4096 = 10 -> opcode0xA000(c, opcode)
    [] opcode \div 4096 = 11 -> opcode0xB000(c, opcode)
    [] opcode \div 4096 = 12 -> opcode0xC000(c, opcode, rnd)
    [] opcode \div 4096 = 13 -> opcode0xD000(c, opcode)
    [] opcode \div 4096 = 14 -> opcode0xE000(c, opcode)
    [] opcode \div 4096 = 15 -> opcode0xF000(c, opcode)

(***************************************************************************)
(* EmulateCycle.                                                           *)
(***************************************************************************)
\* updateTimers with the beep test after the decrement instead of before it
updateTimers_testsAfterDecrement(c, recv) ==
  [ c |-> [c EXCEPT
             !.delayTimer = IF c.delayTimer > 0 THEN c.delayTimer - 1 ELSE 0,
             !.soundTimer = IF c.soundTimer > 0 THEN c.soundTimer - 1 ELSE 0],
    offered |-> c.soundTimer = 2,
    sent |-> c.soundTimer = 2 /\ recv ]

\* updateTimers decrementing with no test for 0: the byte wraps to 255
updateTimers_wrapsAtZero(c, recv) ==
  [ c |-> [c EXCEPT !.delayTimer = U8(c.delayTimer + 255),
                    !.soundTimer = U8(c.soundTimer + 255)],
    offered |-> c.soundTimer = 1,
    sent |-> c.soundTimer = 1 /\ recv ]

\* updateTimers offering a beep on every tick while the sound timer runs
updateTimers_beepsWhileSounding(c, recv) ==
  [ c |-> [c EXCEPT
             !.delayTimer = IF c.delayTimer > 0 THEN c.delayTimer - 1 ELSE 0,
             !.soundTimer = IF c.soundTimer > 0 THEN c.soundTimer - 1 ELSE 0],
    offered |-> c.soundTimer > 0,
    sent |-> c.soundTimer > 0 /\ recv ]

\* The body of case <-c.timerClock.C: both timers count down to 0; a sound
\* timer at 1 offers a beep, which is taken only if the host is receiving at
\* that instant (the send is non-blocking on an unbuffered channel).
updateTimers(c, recv) ==
  [ c |-> [c EXCEPT
             !.delayTimer = IF c.delayTimer > 0 THEN c.delayTimer - 1 ELSE 0,
             !.soundTimer = IF c.soundTimer > 0 THEN c.soundTimer - 1 ELSE 0],
    offered |-> c.soundTimer = 1,
    sent |-> c.soundTimer = 1 /\ recv ]

\* The fetch reads memory[pc] and memory[pc+1]: either index may be past the array.
fetchFaults(c) == c.pc >= MemSize \/ U16(c.pc + 1) >= MemSize

fetch(c) == c.memory[c.pc] * 256 + c.memory[U16(c.pc + 1)]

\* cycle with the timers counted down on every call, tick or no tick
cycle_timersEveryCall(c, tick, recv, rnd) ==
  LET opcode == fetch(c)
      before == currentState(c)
      h == handler(c, opcode, rnd)
      res == [ Opcode |-> opcode, OpcodeType |-> "",
               Before |-> before, After |-> currentState(h.c) ]
      t == updateTimers(h.c, recv)
      quiet == [ c |-> c, result |-> ZeroResult, err |-> "nil", panic |-> TRUE,
                 ticked |-> FALSE, offered |-> FALSE, sent |-> FALSE ]
  IN  IF fetchFaults(c) THEN quiet
      ELSE IF h.panic THEN [quiet EXCEPT !.c = h.c]
      ELSE IF h.err # "nil"
           THEN [quiet EXCEPT !.c = h.c, !.result = res, !.err = h.err,
                              !.panic = FALSE]
      ELSE [ c |-> t.c, result |-> res, err |-> "nil", panic |-> FALSE,
             ticked |-> tick, offered |-> t.offered, sent |-> t.sent ]

\* One call of EmulateCycle on machine c, with a tick buffered or not (tick),
\* the host receiving on the beep channel or not (recv) and the random byte
\* rnd.  The timers are reached only when the handler returned no error.
\* cycle returning on an error before the opcode is put in the Result
cycle_errorWithoutOpcode(c, tick, recv, rnd) ==
  LET opcode == fetch(c)
      before == currentState(c)
      h == handler(c, opcode, rnd)
      res == [ Opcode |-> opcode, OpcodeType |-> "",
               Before |-> before, After |-> currentState(h.c) ]
      t == updateTimers(h.c, recv)
      quiet == [ c |-> c, result |-> ZeroResult, err |-> "nil", panic |-> TRUE,
                 ticked |-> FALSE, offered |-> FALSE, sent |-> FALSE ]
  IN  IF fetchFaults(c) THEN quiet
      ELSE IF h.panic THEN [quiet EXCEPT !.c = h.c]
      ELSE IF h.err # "nil"
           THEN [quiet EXCEPT !.c = h.c, !.err = h.err, !.panic = FALSE]
      ELSE IF tick
           THEN [ c |-> t.c, result |-> res, err |-> "nil", panic |-> FALSE,
                  ticked |-> TRUE, offered |-> t.offered, sent |-> t.sent ]
      ELSE [quiet EXCEPT !.c = h.c, !.result = res, !.panic = FALSE]

cycle(c, tick, recv, rnd) ==
  LET opcode == fetch(c)
      before == currentState(c)
      h == handler(c, opcode, rnd)
      res == [ Opcode |-> opcode, OpcodeType |-> "",
               Before |-> before, After |-> currentState(h.c) ]
      t == updateTimers(h.c, recv)
      quiet == [ c |-> c, result |-> ZeroResult, err |-> "nil", panic |-> TRUE,
                 ticked |-> FALSE, offered |-> FALSE, sent |-> FALSE ]
  IN  IF fetchFaults(c) THEN quiet
      ELSE IF h.panic THEN [quiet EXCEPT !.c = h.c]
      ELSE IF h.err # "nil"
           THEN [quiet EXCEPT !.c = h.c, !.result = res, !.err = h.err,
                              !.panic = FALSE]
      ELSE IF tick
           THEN [ c |-> t.c, result |-> res, err |-> "nil", panic |-> FALSE,
                  ticked |-> TRUE, offered |-> t.offered, sent |-> t.sent ]
      ELSE [quiet EXCEPT !.c = h.c, !.result = res, !.panic = FALSE]

(***************************************************************************)
(* The ROMs the machine is constructed with: programs, as sequences of     *)
(* opcodes, stored big-endian.                                             *)
(***************************************************************************)
RECURSIVE Bytes(_)
Bytes(prog) ==
  IF prog = << >> THEN << >>
  ELSE << Head(prog) \div 256, Head(prog) % 256 >> \o Bytes(Tail(prog))

\* Secondary bytes of the groups 0x0, 0xE and 0xF: every defined one, and others.
SelBytes ==
  { \h00, \h01, \h07, \h0A, \h15, \h18, \h1E, \h29, \h33, \h55, \h65,
    \h9E, \hA1, \hE0, \hEE, \hFF }

\* One-instruction programs over the secondary selectors of the four groups.
DecodePrograms ==
  { << g * 4096 + x * 256 + b >> : g \in {0, 14, 15}, x \in {0, 1}, b \in SelBytes }
    \cup { << \h8010 + n >> : n \in 0..15 }

\* The empty ROM.
EmptyProgram == << >>

\* 0x200: call 0x200, until the stack is full
CallLoopProgram == << \h2200 >>

\* 0x200: call 0x204 ; 0x202: jump 0x202 ; 0x204: return
CallReturnProgram == << \h2204, \h1202, \h00EE >>

\* Registers and register values the key programs use.
KeyRegs == {0, 7, 15}

KeyVals == {0, 15, 16, 255}

\* Vx = v ; Vx = get_key() ; then the zeroed memory after the program
KeyPrograms ==
  { << \h6000 + x * 256 + v, \hF00A + x * 256 >> :
      x \in KeyRegs, v \in KeyVals }

\* V0 = n ; delay_timer(V0) or sound_timer(V0) ; 0x204: jump 0x204
TimerPrograms ==
  { << \h6000 + n, \hF000 + t, \h1204 >> : n \in 1..MaxTimer, t \in {\h15, \h18} }

\* V0 = 1 ; sound_timer(V0) ; V1 = get_key(), waiting with the timer running
TimerKeyProgram == << \h6001, \hF018, \hF10A, \h1206 >>

Programs ==
  DecodePrograms \cup KeyPrograms \cup TimerPrograms
    \cup { EmptyProgram, CallLoopProgram, CallReturnProgram, TimerKeyProgram }

\* bytes followed by zeros and a last byte 0xFF, n bytes in all
Padded(bytes, n) ==
  [ i \in 1..n |-> IF i <= Len(bytes) THEN bytes[i]
                   ELSE IF i = n THEN \hFF ELSE 0 ]

\* ROMs that fill the program region, or overrun it by up to MaxOverrun bytes
BigRoms ==
  { Padded(Bytes(<< \h1200 >>), n) :
      n \in (MemSize - RomBase - 1)..(MemSize - RomBase + MaxOverrun) }

Readers ==
  { [bytes |-> Bytes(p), fail |-> FALSE] : p \in Programs }
    \cup { [bytes |-> b, fail |-> FALSE] : b \in BigRoms }
    \cup { [bytes |-> << >>, fail |-> TRUE] }

(***************************************************************************)
(* Programs that exercise single operations: calls and returns, register   *)
(* arithmetic, skips, draws, and register dumps and loads.                 *)
(***************************************************************************)
\* 0x200: return, on the empty stack
ReturnProgram == << \h00EE >>

\* 0x200: call 0x204 ; 0x202: jump 0x202 ; 0x204: call 0x208 ; 0x206: return ;
\* 0x208: return
NestedCallProgram == << \h2204, \h1202, \h2208, \h00EE, \h00EE >>

\* StackSize nested calls, four bytes apart: call k, at 0x200 + 4(k-1), calls
\* 0x200 + 4k, and a return follows each call; the first call is followed by
\* 0x202: jump 0x202, where the last return ends.
CallChainProgram ==
  [ i \in 1..(2 * StackSize + 1) |->
      IF i = 2 THEN \h1202
      ELSE IF i % 2 = 1 /\ i < 2 * StackSize
           THEN \h2000 + RomBase + 2 * (i + 1)
           ELSE \h00EE ]

CallPrograms ==
  { CallLoopProgram, CallReturnProgram, ReturnProgram, NestedCallProgram,
    CallChainProgram }

\* Register pairs (x, y) of the two-register operations: y apart from x, y the
\* flag register, and y = x.
RegPairs == { << 0, 1 >>, << 0, 15 >>, << 0, 0 >>, << 14, 15 >>, << 14, 14 >> }

\* Values (of Vx, of Vy) the arithmetic programs load.
ValPairs == { << 5, 2 >>, << 255, 3 >>, << 2, 200 >> }

\* Low nibbles of the 8XYN operations exercised: add, sub, shr, subn, shl.
AluOps == {4, 5, 6, 7, 14}

\* Vx = a ; Vy = b ; Vx = Vx op Vy
AluPrograms ==
  { << \h6000 + r[1] * 256 + v[1], \h6000 + r[2] * 256 + v[2],
       \h8000 + r[1] * 256 + r[2] * 16 + n >> :
      r \in RegPairs, v \in ValPairs, n \in AluOps }

\* Vx = a ; Vy = b ; skip on Vx = 5, Vx # 5, Vx = Vy or Vx # Vy
SkipPrograms ==
  { << \h6000 + r[1] * 256 + v[1], \h6000 + r[2] * 256 + v[2],
       g * 4096 + r[1] * 256 + (IF g \in {3, 4} THEN 5 ELSE r[2] * 16) >> :
      r \in { << 0, 1 >>, << 14, 15 >> }, v \in { << 5, 5 >>, << 5, 7 >> },
      g \in {3, 4, 5, 9} }

\* Positions (Vx, Vy) of a 5-row sprite: inside the display, across the right
\* edge, across the bottom edge, and with a pixel of it just past the display.
DrawPositions == { << 0, 0 >>, << 62, 3 >>, << 10, 30 >>, << 0, 28 >> }

\* I = glyph "2" ; V0 = x ; V1 = y ; draw, once or twice ; clear
DrawPrograms ==
  { << \hA00A, \h6000 + p[1], \h6100 + p[2] >>
      \o [ i \in 1..n |-> \hD015 ] \o << \h00E0 >> :
      p \in DrawPositions, n \in {1, 2} }

\* I = glyph "2" ; draw at (0, 0) ; V0 = 2 ; draw at (2, 0), over a part of
\* the first ; draw no rows
OverlapDrawProgram == << \hA00A, \hD015, \h6002, \hD015, \hD010 >>

\* Registers x up to which the dump programs store, and the addresses they
\* store at: in the middle of memory, and ending at its last byte.
DumpRegs == {0, 1, 15}

DumpAddrs(x) == { \h300, MemSize - 1 - x }

\* I = a ; V0 = 0x11 ; V1 = 0x22 ; VF = 0x33 ; dump V0..Vx ; V0 = V1 = VF = 0 ;
\* load V0..Vx
DumpPrograms ==
  { << \hA000 + a, \h6011, \h6122, \h6F33, \hF055 + x * 256,
       \h6000, \h6100, \h6F00, \hF065 + x * 256 >> :
      x \in DumpRegs, a \in UNION { DumpAddrs(r) : r \in DumpRegs } }

\* Transfers of control to the last byte of memory and past it: jump 0xFFF ;
\* call 0xFFF ; V0 = 2, jump V0 + 0xFFE ; and a jump to 0x202 that jumps on.
JumpPrograms ==
  { << \h1FFF >>, << \h2FFF >>, << \h6002, \hBFFE >>, << \h1202, \h1FFF >> }

\* Accesses through I at the end of memory: I = 0xFFF, V0 = 1, I += V0, dump ;
\* I = 0xFFE, V0 = 255, BCD ; I = 0xFFF, draw 2 rows ; I = 0xFFF, load V0..V1.
HighIndexPrograms ==
  { << \hAFFF, \h6001, \hF01E, \hF055 >>,
    << \hAFFE, \h60FF, \hF033 >>,
    << \hAFFF, \hD002 >>,
    << \hAFFF, \hF165 >> }

\* Writes through I below 0x200: I = a, V0 = 255, then dump V0 or BCD of V0,
\* at the font table and at the last bytes below the program.
LowWritePrograms ==
  { << \hA000 + a, \h60FF, \hF000 + n >> :
      a \in {0, RomBase - 2}, n \in {\h33, \h55} }

\* Vx = k ; skip on key k down, or on key k up: for keys the host presses, a
\* key it does not, and values of Vx that are no key.
KeySkipPrograms ==
  { << \h6000 + x * 256 + k, \hE000 + x * 256 + n >> :
      x \in {0, 15}, k \in {0, 1, NumKeys - 1, NumKeys, 255}, n \in {\h9E, \hA1} }

\* I = a ; V0 = v ; BCD of V0 at I: in the middle of memory and at its last
\* three bytes.
BcdPrograms ==
  { << \hA000 + a, \h6000 + v, \hF033 >> :
      a \in {\h300, MemSize - 3}, v \in {0, 7, 42, 100, 199, 255} }

OpPrograms ==
  KeySkipPrograms \cup BcdPrograms \cup CallPrograms \cup AluPrograms \cup SkipPrograms \cup DrawPrograms
    \cup { OverlapDrawProgram } \cup DumpPrograms \cup JumpPrograms \cup HighIndexPrograms
    \cup LowWritePrograms

OpReaders == { [bytes |-> Bytes(p), fail |-> FALSE] : p \in OpPrograms }

\* Keys the host presses.
KeyInputs == {0, NumKeys - 1} \cup (1..MaxMidKey)

(***************************************************************************)
(* The state machine.                                                      *)
(***************************************************************************)
NoTimer == [n |-> 0, ticks |-> 0, lost |-> 0]

\* No key is counted.
NoKeyCount == [k \in {} |-> [presses |-> 0, uses |-> 0]]

\* Before New: the zero struct of c := &Chip8{} and the reader to load.
Init ==
  /\ status = "fresh"
  /\ rom \in Readers
  /\ memory = ZeroChip8.memory
  /\ V = ZeroChip8.V
  /\ I = 0
  /\ pc = 0
  /\ gfx = ZeroChip8.gfx
  /\ delayTimer = 0
  /\ soundTimer = 0
  /\ stack = ZeroChip8.stack
  /\ sp = 0
  /\ key = ZeroChip8.key
  /\ drawFlag = FALSE
  /\ tickPending = FALSE
  /\ beepHost = "idle"
  /\ result = ZeroResult
  /\ err = "nil"
  /\ timerSince = [t \in {"delay", "sound"} |-> NoTimer]
  /\ drawnSince = FALSE
  /\ keyCount = NoKeyCount

\* The machine c becomes the state.
Becomes(c) ==
  /\ memory' = c.memory
  /\ V' = c.V
  /\ I' = c.I
  /\ pc' = c.pc
  /\ gfx' = c.gfx
  /\ delayTimer' = c.delayTimer
  /\ soundTimer' = c.soundTimer
  /\ stack' = c.stack
  /\ sp' = c.sp
  /\ key' = c.key
  /\ drawFlag' = c.drawFlag

\* New(rom): initialize, then loadROM; its error is returned with no machine.
New ==
  /\ status = "fresh"
  /\ LET r == loadROM(initialize(cpu), rom)
     IN  /\ Becomes(r.c)
         /\ status' = IF r.panic THEN "panicked"
                      ELSE IF r.err # "nil" THEN "failed" ELSE "running"
         /\ err' = r.err
  /\ rom' = [bytes |-> << >>, fail |-> rom.fail]
  /\ UNCHANGED << tickPending, beepHost, result, timerSince, drawnSince,
                  keyCount >>

\* The random bytes a cycle can draw: only CXNN draws one.
Draws(c) ==
  IF ~fetchFaults(c) /\ fetch(c) \div 4096 = 12 THEN RandBytes ELSE {0}

\* What the opcode a cycle executed wrote to timer t, -1 when nothing.
Written(r, t) ==
  LET op == r.result.Opcode
      nn == IF t = "delay" THEN \h15 ELSE \h18
  IN  IF ~r.panic /\ r.err = "nil" /\ op \div 4096 = 15 /\ NN(op) = nn
      THEN r.result.Before.V[X(op)] ELSE -1

\* The cycle r executed a DXYN to its end.
Drew(r) ==
  ~r.panic /\ r.err = "nil" /\ r.result.Opcode \div 4096 = 13

\* The cycle r, run from c, took the skip of EX9E on key k (pc += 4), or
\* FX0A captured key k (V[x] = index, pc += 2).
UsedKey(c, r, k) ==
  /\ ~fetchFaults(c) /\ ~r.panic /\ r.err = "nil"
  /\ LET op == fetch(c)
     IN  \/ /\ op \div 4096 = 14 /\ NN(op) = \h9E
            /\ c.V[X(op)] = k
            /\ r.c.pc = U16(c.pc + 4)
         \/ /\ op \div 4096 = 15 /\ NN(op) = \h0A
            /\ r.c.V[X(op)] = k
            /\ r.c.pc = U16(c.pc + 2)

EmulateCycle ==
  /\ status = "running"
  /\ \E rnd \in Draws(cpu) :
       LET r == cycle(cpu, tickPending, beepHost = "receiving", rnd)
       IN  /\ Becomes(r.c)
           /\ status' = IF r.panic THEN "panicked" ELSE "running"
           /\ result' = IF r.panic THEN result ELSE r.result
           /\ err' = IF r.panic THEN err ELSE r.err
           /\ tickPending' = (tickPending /\ ~r.ticked)
           /\ beepHost' = IF r.sent THEN "beeping" ELSE beepHost
           /\ timerSince' =
                [t \in {"delay", "sound"} |->
                   IF Written(r, t) >= 0
                   THEN [n |-> Written(r, t), ticks |-> 0, lost |-> 0]
                   ELSE timerSince[t]]
           /\ drawnSince' = (drawnSince \/ Drew(r))
           /\ keyCount' =
                [k \in DOMAIN keyCount |->
                   IF UsedKey(cpu, r, k)
                   THEN [keyCount[k] EXCEPT !.uses = @ + 1]
                   ELSE keyCount[k]]
  /\ UNCHANGED rom

\* SetKeyDown(index)
SetKeyDown ==
  /\ status = "running"
  /\ \E index \in KeyInputs :
       /\ index \in DOMAIN keyCount => keyCount[index].presses < MaxPresses
       /\ key' = [key EXCEPT ![index] = 1]
       /\ keyCount' = IF index \in DOMAIN keyCount
                      THEN [keyCount EXCEPT ![index].presses = @ + 1]
                      ELSE keyCount
  /\ UNCHANGED << status, rom, memory, V, I, pc, gfx, delayTimer, soundTimer,
                  stack, sp, drawFlag, tickPending, beepHost, result, err,
                  timerSince, drawnSince >>

\* The value of timer t.
TimerValue(t) == IF t = "delay" THEN delayTimer ELSE soundTimer

\* A 60Hz period of timerClock elapses: the tick is buffered, or dropped when
\* one is buffered already.  Periods are counted for a timer while it runs.
Tick ==
  /\ status = "running"
  /\ \A t \in {"delay", "sound"} :
       TimerValue(t) > 0 => timerSince[t].ticks < MaxElapsed
  /\ tickPending' = TRUE
  /\ timerSince' =
       [t \in {"delay", "sound"} |->
          IF TimerValue(t) > 0
          THEN [timerSince[t] EXCEPT
                  !.ticks = @ + 1,
                  !.lost = IF tickPending THEN @ + 1 ELSE @]
          ELSE timerSince[t]]
  /\ UNCHANGED << status, rom, machineVars, beepHost, result, err, drawnSince,
                  keyCount >>

\* The host starts to receive from the channel Beep() returned: for the first
\* time, or again after the beep it got.
BeepReceive ==
  /\ status = "running"
  /\ beepHost # "receiving"
  /\ beepHost' = "receiving"
  /\ UNCHANGED << status, rom, machineVars, tickPending, result, err, timerSince,
                  drawnSince, keyCount >>

\* DrawFlag with a read that leaves the flag as it is
readDrawFlag_keepsFlag(c) == [c |-> c, flag |-> c.drawFlag]

\* flag := c.drawFlag ; c.drawFlag = false ; return flag
readDrawFlag(c) == [c |-> [c EXCEPT !.drawFlag = FALSE], flag |-> c.drawFlag]

\* DrawFlag()
DrawFlag ==
  /\ status = "running"
  /\ Becomes(readDrawFlag(cpu).c)
  /\ drawnSince' = FALSE
  /\ UNCHANGED << status, rom, tickPending, beepHost, result, err, timerSince,
                  keyCount >>

Next == New \/ EmulateCycle \/ SetKeyDown \/ Tick \/ BeepReceive \/ DrawFlag

Spec == Init /\ [][Next]_vars

\* Before New, with a program that exercises single operations to load.
InitOps ==
  /\ status = "fresh"
  /\ rom \in OpReaders
  /\ memory = ZeroChip8.memory
  /\ V = ZeroChip8.V
  /\ I = 0
  /\ pc = 0
  /\ gfx = ZeroChip8.gfx
  /\ delayTimer = 0
  /\ soundTimer = 0
  /\ stack = ZeroChip8.stack
  /\ sp = 0
  /\ key = ZeroChip8.key
  /\ drawFlag = FALSE
  /\ tickPending = FALSE
  /\ beepHost = "idle"
  /\ result = ZeroResult
  /\ err = "nil"
  /\ timerSince = [t \in {"delay", "sound"} |-> NoTimer]
  /\ drawnSince = FALSE
  /\ keyCount = NoKeyCount

SpecOps == InitOps /\ [][Next]_vars

\* Programs that poll the keypad in a loop.
\* V0 = k ; 0x202: skip if key V0 is down ; V1 = get_key() ; jump 0x202
PollSkipPrograms ==
  { << \h6000 + k, \hE09E, \hF10A, \h1202 >> : k \in {0, NumKeys - 1} }

\* V0 = k ; 0x202: skip if key V0 is up ; skip if key V0 is down ; jump 0x202
PollBothPrograms ==
  { << \h6000 + k, \hE0A1, \hE09E, \h1202, \h1202 >> : k \in {0, NumKeys - 1} }

\* V0 = get_key() ; skip if key V0 is down ; jump 0x200 ; jump 0x200
PollCaptureProgram == << \hF00A, \hE09E, \h1200, \h1200 >>

KeyLoopPrograms ==
  PollSkipPrograms \cup PollBothPrograms \cup { PollCaptureProgram }

KeyLoopReaders == { [bytes |-> Bytes(p), fail |-> FALSE] : p \in KeyLoopPrograms }

\* The keys whose SetKeyDown calls, skips and captures are counted.
CountedKeys == {0, NumKeys - 1}

\* Before New, with a key-polling program to load and the counts at zero.
InitKeys ==
  /\ status = "fresh"
  /\ rom \in KeyLoopReaders
  /\ memory = ZeroChip8.memory
  /\ V = ZeroChip8.V
  /\ I = 0
  /\ pc = 0
  /\ gfx = ZeroChip8.gfx
  /\ delayTimer = 0
  /\ soundTimer = 0
  /\ stack = ZeroChip8.stack
  /\ sp = 0
  /\ key = ZeroChip8.key
  /\ drawFlag = FALSE
  /\ tickPending = FALSE
  /\ beepHost = "idle"
  /\ result = ZeroResult
  /\ err = "nil"
  /\ timerSince = [t \in {"delay", "sound"} |-> NoTimer]
  /\ drawnSince = FALSE
  /\ keyCount = [k \in CountedKeys |-> [presses |-> 0, uses |-> 0]]

SpecKeys == InitKeys /\ [][Next]_vars

\* Programs that draw a random byte: Vx = rand() & NN ; 0x202: jump 0x202
RandMasks == {\h00, \h0F, \h81, \hFF}

RandPrograms ==
  { << \hC000 + x * 256 + nn, \h1202 >> : x \in {0, 15}, nn \in RandMasks }

RandReaders == { [bytes |-> Bytes(p), fail |-> FALSE] : p \in RandPrograms }

\* Before New, with a program that draws a random byte to load.
InitRand ==
  /\ status = "fresh"
  /\ rom \in RandReaders
  /\ memory = ZeroChip8.memory
  /\ V = ZeroChip8.V
  /\ I = 0
  /\ pc = 0
  /\ gfx = ZeroChip8.gfx
  /\ delayTimer = 0
  /\ soundTimer = 0
  /\ stack = ZeroChip8.stack
  /\ sp = 0
  /\ key = ZeroChip8.key
  /\ drawFlag = FALSE
  /\ tickPending = FALSE
  /\ beepHost = "idle"
  /\ result = ZeroResult
  /\ err = "nil"
  /\ timerSince = [t \in {"delay", "sound"} |-> NoTimer]
  /\ drawnSince = FALSE
  /\ keyCount = NoKeyCount

SpecRand == InitRand /\ [][Next]_vars

(***************************************************************************)
(* Properties.                                                             *)
(***************************************************************************)
\* The opcode the next cycle executes.
NextOpcode == fetch(cpu)

\* A cycle can execute an instruction: the machine runs and the fetch is in memory.
CanFetch == status = "running" /\ ~fetchFaults(cpu)

\* Opcodes of the groups 0x0, 0x8, 0xE and 0xF whose secondary nibble or byte
\* selects no defined operation.
NoOperation(op) ==
  \/ op \div 4096 = 0 /\ op \notin {\h00E0, \h00EE}
  \/ op \div 4096 = 8 /\ op % 16 \in (8..13) \cup {15}
  \/ op \div 4096 = 14 /\ NN(op) \notin {\h9E, \hA1}
  \/ op \div 4096 = 15
       /\ NN(op) \notin {\h07, \h0A, \h15, \h18, \h1E, \h29, \h33, \h55, \h65}

\* C1: a cycle whose opcode is in group 0x0, 0x8, 0xE or 0xF and selects no
\* defined operation returns the unknown-opcode error.
C1_UnknownOpcodeIsAnError ==
  [][(CanFetch /\ NoOperation(NextOpcode) /\ EmulateCycle)
       => (status' = "running" /\ err' = "unknown opcode")]_vars

\* The last EmulateCycle returned an error.
Halted == status = "running" /\ err # "nil"

\* C2: once EmulateCycle has returned an error, every later call returns an
\* error too, and pc, V, I, the stack, memory and the display never change,
\* whatever keys are pressed and ticks elapse in between.
C2_HaltedIsTerminal ==
  [][Halted => /\ Halted'
               /\ pc' = pc /\ V' = V /\ I' = I
               /\ stack' = stack /\ sp' = sp
               /\ memory' = memory /\ gfx' = gfx]_vars

\* Halted after a key was read, with a tick buffered and a key down.
C2_Witness ==
  /\ Halted
  /\ result.Before.PC = RomBase + 4
  /\ V[7] = NumKeys - 1
  /\ tickPending
  /\ key[0] = 1

\* C3: 2NNN with the stack full (sp = 16) makes EmulateCycle return a stack
\* overflow error: the process goes on, sp and the stack are as before.
C3_CallOnFullStackIsAnError ==
  [][(CanFetch /\ NextOpcode \div 4096 = 2 /\ sp = StackSize /\ EmulateCycle)
       => (status' = "running" /\ err' = "stack overflow"
             /\ sp' = sp /\ stack' = stack)]_vars

\* C4: 00EE with the stack empty (sp = 0) makes EmulateCycle return a stack
\* underflow error: the process goes on and sp stays 0.
C4_ReturnOnEmptyStackIsAnError ==
  [][(CanFetch /\ NextOpcode = \h00EE /\ sp = 0 /\ EmulateCycle)
       => (status' = "running" /\ err' = "stack underflow" /\ sp' = 0)]_vars

\* C5: New with a ROM of more than 3584 bytes returns an error and no machine.
C5_RomTooLargeIsAnError ==
  [][(New /\ ~rom.fail /\ Len(rom.bytes) > MemSize - RomBase)
       => (status' = "failed" /\ err' = "rom too large")]_vars

\* C6: New with a ROM of at most 3584 bytes returns a machine whose memory
\* holds the font from address 0, the ROM from 0x200 and 0 elsewhere, with
\* pc = 0x200 and index, stack, registers, display, keys, timers and draw
\* flag all zero.
C6_NewLoadsTheRom ==
  [][(New /\ ~rom.fail /\ Len(rom.bytes) <= MemSize - RomBase)
       => /\ status' = "running"
          /\ err' = "nil"
          /\ \A i \in 1..Len(rom.bytes) : memory'[RomBase + i - 1] = rom.bytes[i]
          /\ \A a \in 0..(Len(chip8Fontset) - 1) : memory'[a] = chip8Fontset[a + 1]
          /\ \A a \in Len(chip8Fontset)..(RomBase - 1) : memory'[a] = 0
          /\ \A a \in (RomBase + Len(rom.bytes))..(MemSize - 1) : memory'[a] = 0
          /\ pc' = RomBase /\ I' = 0 /\ sp' = 0
          /\ \A r \in 0..(NumRegs - 1) : V'[r] = 0
          /\ \A e \in 0..(StackSize - 1) : stack'[e] = 0
          /\ \A p \in 0..(GfxSize - 1) : gfx'[p] = 0
          /\ \A k \in 0..(NumKeys - 1) : key'[k] = 0
          /\ delayTimer' = 0 /\ soundTimer' = 0
          /\ drawFlag' = FALSE]_vars

\* A machine constructed with a ROM that fills the program region, before any cycle.
C6_Witness ==
  /\ status = "running"
  /\ result = ZeroResult
  /\ memory[RomBase] = \h12
  /\ memory[MemSize - 1] = \hFF

IsGetKey(op) == op \div 4096 = 15 /\ NN(op) = \h0A

NoKeyDown == \A k \in 0..(NumKeys - 1) : key[k] = 0

\* C7: a cycle at FX0A with no key down returns without error and leaves pc,
\* V, I, the stack, memory, the display and the keys as they were.
C7_WaitLeavesTheMachineAlone ==
  [][(CanFetch /\ IsGetKey(NextOpcode) /\ NoKeyDown /\ EmulateCycle)
       => /\ status' = "running" /\ err' = "nil"
          /\ pc' = pc /\ V' = V /\ I' = I
          /\ stack' = stack /\ sp' = sp
          /\ memory' = memory /\ gfx' = gfx /\ key' = key]_vars

\* C8: a cycle at FX0A with a key down sets Vx to the index of a key that is
\* down, releases that key and no other, and advances pc by 2.
C8_KeyIsReadAndReleased ==
  [][(CanFetch /\ IsGetKey(NextOpcode) /\ ~NoKeyDown /\ EmulateCycle)
       => /\ status' = "running" /\ err' = "nil"
          /\ V'[X(NextOpcode)] \in 0..(NumKeys - 1)
          /\ key[V'[X(NextOpcode)]] # 0
          /\ key' = [key EXCEPT ![V'[X(NextOpcode)]] = 0]
          /\ pc' = pc + 2]_vars

\* Key 0 was read into VF, which held 255, while key 15 is down.
C8_Witness ==
  /\ status = "running"
  /\ IsGetKey(result.Opcode)
  /\ X(result.Opcode) = 15
  /\ result.Before.V[15] = 255
  /\ result.After.V[15] = 0
  /\ result.After.PC = result.Before.PC + 2
  /\ key[0] = 0
  /\ key[NumKeys - 1] = 1

\* Timer t was written n > 0 and has counted down to 0.
RanOut(t) == TimerValue(t) = 0 /\ timerSince[t].n > 0

\* C9 as claimed: a timer written n reaches 0 after between n-1 and n+1
\* elapsed 60Hz periods, whatever the rate of the cycles.
C9_DecayWithinOneTick ==
  \A t \in {"delay", "sound"} :
    RanOut(t) =>
      /\ timerSince[t].ticks >= timerSince[t].n - 1
      /\ timerSince[t].ticks <= timerSince[t].n + 1

\* C9 as amended: the same, not counting the periods whose tick was dropped
\* because the tick before it had not been consumed yet.
C9_DecayWithinOneKeptTick ==
  \A t \in {"delay", "sound"} :
    RanOut(t) =>
      /\ timerSince[t].ticks - timerSince[t].lost >= timerSince[t].n - 1
      /\ timerSince[t].ticks - timerSince[t].lost <= timerSince[t].n + 1

\* The delay timer ran out from MaxTimer with ticks dropped on the way.
C9_Witness ==
  /\ RanOut("delay")
  /\ timerSince["delay"].n = MaxTimer
  /\ timerSince["delay"].lost >= 2

\* The next cycle takes the sound timer from 1 to 0: its instruction leaves
\* the timer at 1 and a tick is buffered.
BeepEdge ==
  /\ CanFetch
  /\ tickPending
  /\ LET h == handler(cpu, NextOpcode, 0)
     IN  ~h.panic /\ h.err = "nil" /\ h.c.soundTimer = 1

CyclesAfter(rnd) == { cycle(cpu', tick, recv, rnd) : tick, recv \in BOOLEAN }

\* C11: a call (2NNN) at pc = p with sp = s < 16, and a return (00EE) as the
\* next instruction, end with pc = p + 2 and sp = s, and the stack entries
\* below s as they were.
C11_CallThenReturn ==
  [][(/\ CanFetch /\ NextOpcode \div 4096 = 2 /\ sp < StackSize
      /\ EmulateCycle
      /\ ~fetchFaults(cpu') /\ fetch(cpu') = \h00EE)
       => /\ status' = "running" /\ err' = "nil"
          /\ \A r \in CyclesAfter(0) :
               /\ ~r.panic /\ r.err = "nil"
               /\ r.c.pc = pc + 2
               /\ r.c.sp = sp
               /\ \A i \in 0..(sp - 1) : r.c.stack[i] = stack[i]]_vars

\* A return from the deepest call, of sp = 15, has run: sp is 15 again and pc
\* is two bytes past that call.
C11_Witness ==
  /\ status = "running" /\ err = "nil"
  /\ result.Opcode = \h00EE
  /\ sp = StackSize - 1
  /\ stack[sp] = RomBase + 4 * (StackSize - 1)
  /\ pc = stack[sp] + 2

\* C12: after a call (2NNN) at pc = p, pc = NNN and stack[sp], read with the
\* value sp has after the call, is p.
C12_CallLeavesPcAtTheTop ==
  [][(CanFetch /\ NextOpcode \div 4096 = 2 /\ sp < StackSize /\ EmulateCycle)
       => /\ status' = "running" /\ err' = "nil"
          /\ pc' = NNN(NextOpcode)
          /\ sp' < StackSize
          /\ stack'[sp'] = pc]_vars

\* C13: a return (00EE) with the saved address a in the stack slot at index sp
\* returns no error and sets pc = a + 2.
C13_ReturnReadsTheSlotAtSp ==
  [][(CanFetch /\ NextOpcode = \h00EE /\ sp < StackSize /\ EmulateCycle)
       => /\ status' = "running" /\ err' = "nil"
          /\ pc' = U16(stack[sp] + 2)]_vars

\* The next cycle executes 8XYn with x in 0..14.
IsAlu(n) ==
  /\ CanFetch
  /\ NextOpcode \div 4096 = 8 /\ NextOpcode % 16 = n
  /\ X(NextOpcode) # 15

\* Every register but Vx and VF is as before the step.
OthersKept(x) ==
  \A r \in 0..(NumRegs - 1) : r \notin {x, 15} => V'[r] = V[r]

\* C14: 8XY4, for x in 0..14 and y # x (y = 0xF included), leaves
\* Vx = (Vx + Vy) mod 256 of the values before the instruction and VF = 1 when
\* that sum exceeds 255, else 0; Vy, where it is not the flag register, and
\* the other registers are unchanged.
C14_AddFromTheValuesBefore ==
  [][(IsAlu(4) /\ Y(NextOpcode) # X(NextOpcode) /\ EmulateCycle)
       => LET x == X(NextOpcode)
              y == Y(NextOpcode)
          IN  /\ status' = "running" /\ err' = "nil"
              /\ V'[x] = (V[x] + V[y]) % 256
              /\ V'[15] = IF V[x] + V[y] > 255 THEN 1 ELSE 0
              /\ OthersKept(x)]_vars

\* C15: for x in 0..14 and every y (y = 0xF included), 8XY5 leaves
\* Vx = (Vx - Vy) mod 256 with VF = 1 iff Vx >= Vy, and 8XY7 leaves
\* Vx = (Vy - Vx) mod 256 with VF = 1 iff Vy >= Vx, of the values before the
\* instruction.
C15_SubtractFromTheValuesBefore ==
  [][((IsAlu(5) \/ IsAlu(7)) /\ EmulateCycle)
       => LET x == X(NextOpcode)
              y == Y(NextOpcode)
              a == IF NextOpcode % 16 = 5 THEN V[x] ELSE V[y]
              b == IF NextOpcode % 16 = 5 THEN V[y] ELSE V[x]
          IN  /\ status' = "running" /\ err' = "nil"
              /\ V'[x] = (a - b) % 256
              /\ V'[15] = IF a >= b THEN 1 ELSE 0]_vars

\* C16: 8XY6, for x in 0..14 and every y (y = x included), leaves
\* Vx = Vy >> 1 and VF = the least-significant bit of Vy, of the Vy before the
\* instruction.
C16_ShiftRightFromTheValueBefore ==
  [][(IsAlu(6) /\ EmulateCycle)
       => LET x == X(NextOpcode)
              y == Y(NextOpcode)
          IN  /\ status' = "running" /\ err' = "nil"
              /\ V'[x] = V[y] \div 2
              /\ V'[15] = V[y] % 2]_vars

\* The next cycle executes a conditional skip: 3XNN, 4XNN, 5XY0 or 9XY0.
IsSkip(op) ==
  \/ op \div 4096 \in {3, 4}
  \/ op \div 4096 \in {5, 9} /\ op % 16 = 0

\* The condition the skip op tests holds of the registers.
SkipMatches(op) ==
  CASE op \div 4096 = 3 -> V[X(op)] = NN(op)
    [] op \div 4096 = 4 -> V[X(op)] # NN(op)
    [] op \div 4096 = 5 -> V[X(op)] = V[Y(op)]
    [] op \div 4096 = 9 -> V[X(op)] # V[Y(op)]

TurnsOnAPixel == \E p \in 0..(GfxSize - 1) : gfx[p] = 0 /\ gfx'[p] = 1

\* C18: a DXYN whose position registers are not VF, executed twice in
\* succession, leaves every pixel as it was before the first draw, and leaves
\* VF = 1 when the first draw turned a pixel on.
C18_DrawTwiceRestoresTheDisplay ==
  [][(/\ CanFetch /\ NextOpcode \div 4096 = 13
      /\ X(NextOpcode) # 15 /\ Y(NextOpcode) # 15
      /\ EmulateCycle
      /\ ~fetchFaults(cpu') /\ fetch(cpu') = NextOpcode)
       => /\ status' = "running" /\ err' = "nil"
          /\ I' = I /\ V'[X(NextOpcode)] = V[X(NextOpcode)]
          /\ V'[Y(NextOpcode)] = V[Y(NextOpcode)]
          /\ \A r \in CyclesAfter(0) :
               /\ ~r.panic /\ r.err = "nil"
               /\ r.c.gfx = gfx
               /\ TurnsOnAPixel => r.c.V[15] = 1]_vars

\* C19: 00E0 sets every pixel of the display to 0, whatever the display held,
\* returns no error and advances pc by 2.
C19_ClearZeroesTheDisplay ==
  [][(CanFetch /\ NextOpcode = \h00E0 /\ EmulateCycle)
       => /\ status' = "running" /\ err' = "nil"
          /\ \A p \in 0..(GfxSize - 1) : gfx'[p] = 0
          /\ pc' = pc + 2]_vars

\* The clear that follows a single draw, of the sprite across the right edge,
\* has run: the display it cleared held the sprite.
C19_Witness ==
  /\ status = "running" /\ err = "nil"
  /\ result.Opcode = \h00E0
  /\ result.Before.PC = RomBase + 8
  /\ V[0] = 62 /\ drawFlag
  /\ \A p \in 0..(GfxSize - 1) : gfx[p] = 0

\* The FX65 that loads the registers the FX55 op stored.
LoadOf(op) == op - \h55 + \h65

\* The machine after the step with V0..Vx set to zero.
ZeroedUpTo(x) ==
  [cpu' EXCEPT !.V = [r \in 0..(NumRegs - 1) |-> IF r <= x THEN 0 ELSE @[r]]]

\* C20: with I + x <= 4095, FX55, then V0..Vx set to zero, then FX65 with the
\* same I, leaves V0..Vx as they were before the FX55; neither instruction
\* changes I or a register above Vx.
C20_DumpThenLoadRestores ==
  [][(/\ CanFetch /\ NextOpcode \div 4096 = 15 /\ NN(NextOpcode) = \h55
      /\ I + X(NextOpcode) <= MemSize - 1
      /\ EmulateCycle)
       => /\ status' = "running" /\ err' = "nil"
          /\ I' = I /\ V' = V
          /\ LET x == X(NextOpcode)
                 l == handler(ZeroedUpTo(x), LoadOf(NextOpcode), 0)
             IN  /\ ~l.panic /\ l.err = "nil"
                 /\ l.c.I = I
                 /\ l.c.V = V]_vars

\* FF65 has loaded V0..VF, zeroed after the dump, from the last 16 bytes of
\* memory.
C20_Witness ==
  /\ status = "running" /\ err = "nil"
  /\ result.Opcode = \hFF65
  /\ I = MemSize - NumRegs
  /\ result.Before.V[0] = 0 /\ result.Before.V[15] = 0
  /\ V[0] = \h11 /\ V[1] = \h22 /\ V[15] = \h33

\* C21: the Result of every opcode handled without an error carries the label
\* of the opcode's class as its OpcodeType, never the empty label.
C21_ResultNamesTheOpcodeType ==
  [][(CanFetch /\ EmulateCycle /\ status' = "running" /\ err' = "nil")
       => result'.OpcodeType # ""]_vars

\* C22: when EmulateCycle returns an error, the Result has the fetched word as
\* its Opcode and the pc and V of before the call as Before and as After, and
\* the call has changed nothing of the machine: pc, V, I, sp, stack, memory,
\* display, keys and timers.
C22_ErrorLeavesTheMachineAlone ==
  [][(CanFetch /\ EmulateCycle /\ status' = "running" /\ err' # "nil")
       => /\ result'.Opcode = NextOpcode
          /\ result'.Before = currentState(cpu)
          /\ result'.After = currentState(cpu)
          /\ machineVars' = machineVars]_vars

\* The unknown opcode 0x801F was rejected, with key 15 down and a tick buffered.
C22_Witness ==
  /\ status = "running" /\ err = "unknown opcode"
  /\ result.Opcode = \h801F
  /\ result.Before.PC = RomBase /\ result.After = result.Before
  /\ pc = RomBase
  /\ key[NumKeys - 1] = 1 /\ tickPending

C24_PcStaysFetchable ==
  status \in {"running", "panicked"} => pc <= MemSize - 2

\* C25: in every state reached from New the stack pointer is in 0..16.
C25_SpWithinTheStack ==
  status \in {"running", "panicked"} => sp \in 0..StackSize

\* The next cycle executes an instruction that addresses memory through I:
\* DXYN, FX33, FX55 or FX65.
IsIndexed(op) ==
  \/ op \div 4096 = 13
  \/ op \div 4096 = 15 /\ NN(op) \in {\h33, \h55, \h65}

\* The memory indexes c.I + i the instruction op computes.
IndexedAddrs(op) ==
  LET last == CASE op \div 4096 = 13 -> (op % 16) - 1
                [] NN(op) = \h33 -> 2
                [] OTHER -> X(op)
  IN  { U16(I + i) : i \in 0..last }

\* C26: DXYN, FX33, FX55 and FX65 index memory only inside 0..4095, whatever
\* I holds, values above 0xFFF included, and so FX33, FX55 and FX65 run to
\* their end.
C26_IndexedAccessStaysInMemory ==
  [][(CanFetch /\ IsIndexed(NextOpcode) /\ EmulateCycle)
       => /\ \A a \in IndexedAddrs(NextOpcode) : a <= MemSize - 1
          /\ (NextOpcode \div 4096 = 15 => status' = "running")]_vars

\* C27: memory below 0x200 is what initialization left there, after any
\* sequence of cycles.
C27_LowMemoryIsNeverWritten ==
  status \in {"running", "panicked"}
    => \A a \in 0..(RomBase - 1) : memory[a] = initialize(ZeroChip8).memory[a]

\* C28: DXYN XORs bit b of sprite row r into the pixel at column
\* (Vx + b) mod 64 and row (Vy + r) mod 32, and indexes the display only
\* inside 0..2047, so it runs to its end wherever the sprite is in memory.
C28_DrawWrapsAtTheEdges ==
  [][(/\ CanFetch /\ NextOpcode \div 4096 = 13
      /\ I + (NextOpcode % 16) <= MemSize
      /\ EmulateCycle)
       => LET vx == V[X(NextOpcode)]
              vy == V[Y(NextOpcode)]
              b(p) == ((p % 64) + 256 - vx) % 64
              r(p) == ((p \div 64) + 256 - vy) % 32
              bit(p) == IF b(p) < 8 /\ r(p) < NextOpcode % 16
                        THEN Bit(memory[I + r(p)], 7 - b(p)) ELSE 0
          IN  /\ status' = "running" /\ err' = "nil"
              /\ gfx' = [p \in 0..(GfxSize - 1) |-> BitXor(gfx[p], bit(p))]]_vars

\* C29: after DXYN, VF = 1 when a pixel that was on before the instruction
\* is off after it, and VF = 0 when there is none.
C29_FlagTellsOfPixelsTurnedOff ==
  [][(CanFetch /\ NextOpcode \div 4096 = 13 /\ EmulateCycle)
       => V'[15] = IF \E p \in 0..(GfxSize - 1) : gfx[p] = 1 /\ gfx'[p] = 0
                   THEN 1 ELSE 0]_vars

\* A sprite drawn over a part of another: a collision is flagged, and pixels
\* of both are on.
C29_Witness ==
  /\ status = "running" /\ err = "nil"
  /\ result.Opcode = \hD015 /\ result.Before.PC = RomBase + 6
  /\ V[0] = 2 /\ V[15] = 1
  /\ gfx[0] = 1 /\ gfx[2] = 0 /\ gfx[4] = 1

\* C30: 8XYE, for x in 0..14 and every y (y = x included), leaves VF = 1 when
\* bit 7 of Vy is set and VF = 0 otherwise, and Vx = (Vy << 1) mod 256, of the
\* Vy before the instruction.
C30_ShiftLeftFromTheValueBefore ==
  [][(IsAlu(14) /\ EmulateCycle)
       => LET x == X(NextOpcode)
              y == Y(NextOpcode)
          IN  /\ status' = "running" /\ err' = "nil"
              /\ V'[x] = (V[y] * 2) % 256
              /\ V'[15] = IF V[y] >= 128 THEN 1 ELSE 0]_vars

\* The machine as the instruction of the next cycle leaves it, before the
\* timers.
AfterInstruction == handler(cpu, NextOpcode, 0).c

\* One step of a timer toward 0.
Decremented(t) == IF t > 0 THEN t - 1 ELSE 0

\* C31: a cycle that returns no error and consumes a tick, however many 60Hz
\* periods elapsed before it, takes each non-zero timer down by exactly 1 and
\* leaves a timer at 0 at 0; a cycle that consumes no tick leaves both timers
\* as its instruction left them.
C31_OneTickOneDecrement ==
  [][(CanFetch /\ EmulateCycle /\ status' = "running" /\ err' = "nil")
       => IF tickPending
          THEN /\ delayTimer' = Decremented(AfterInstruction.delayTimer)
               /\ soundTimer' = Decremented(AfterInstruction.soundTimer)
               /\ ~tickPending'
          ELSE /\ delayTimer' = AfterInstruction.delayTimer
               /\ soundTimer' = AfterInstruction.soundTimer]_vars

\* The sound timer, written MaxTimer, has been decremented once, by a cycle
\* that came after two or more periods.
C31_Witness ==
  /\ status = "running" /\ err = "nil"
  /\ timerSince["sound"].n = MaxTimer
  /\ timerSince["sound"].lost >= 1
  /\ soundTimer = MaxTimer - 1
  /\ delayTimer = 0

\* The next cycle offers a beep on the channel.
OffersBeep ==
  \E rnd \in Draws(cpu) :
    cycle(cpu, tickPending, beepHost = "receiving", rnd).offered

\* C32: a beep is offered on the Beep() channel, and so reaches the host,
\* only in a cycle that returns no error and whose tick takes the sound timer
\* from 1 to 0.
C32_BeepOnlyOnTheLastTick ==
  [][(CanFetch /\ EmulateCycle /\ (OffersBeep \/ beepHost' # beepHost))
       => /\ OffersBeep
          /\ status' = "running" /\ err' = "nil"
          /\ tickPending
          /\ AfterInstruction.soundTimer = 1
          /\ soundTimer' = 0]_vars

\* The host got the beep of a sound timer written MaxTimer: the tick before,
\* from MaxTimer down, gave none.
C32_Witness ==
  /\ beepHost = "beeping"
  /\ soundTimer = 0
  /\ timerSince["sound"].n = MaxTimer
  /\ result.Opcode = \h1204

\* The next cycle executes EX9E or EXA1.
IsKeySkip(op) == op \div 4096 = 14 /\ NN(op) \in {\h9E, \hA1}

\* C33: with Vx = k in 0..15, EX9E advances pc by 4 when key k is down and by
\* 2 otherwise, EXA1 by 4 when key k is up and by 2 otherwise; after either,
\* key k is up and every other key is as before.
C33_KeySkipsReleaseTheKey ==
  [][(/\ CanFetch /\ IsKeySkip(NextOpcode)
      /\ V[X(NextOpcode)] <= NumKeys - 1
      /\ EmulateCycle)
       => LET k == V[X(NextOpcode)]
              down == key[k] # 0
              skips == IF NN(NextOpcode) = \h9E THEN down ELSE ~down
          IN  /\ status' = "running" /\ err' = "nil"
              /\ pc' = pc + (IF skips THEN 4 ELSE 2)
              /\ key' = [key EXCEPT ![k] = 0]]_vars

\* EFA1 found key 15 down and did not skip: key 15 is released, key 0 is
\* still down.
C33_Witness ==
  /\ status = "running" /\ err = "nil"
  /\ result.Opcode = \hEFA1
  /\ V[15] = NumKeys - 1
  /\ pc = RomBase + 4
  /\ key[NumKeys - 1] = 0 /\ key[0] = 1

\* The opcodes that set pc themselves: jumps (1NNN, BNNN), call (2NNN),
\* return (00EE), skips (3XNN, 4XNN, 5XY0, 9XY0, EX9E, EXA1) and FX0A.
SetsPc(op) ==
  \/ op \div 4096 \in {1, 2, 3, 4, 5, 9, 11}
  \/ op = \h00EE
  \/ IsKeySkip(op)
  \/ IsGetKey(op)

\* C35: a cycle that returns no error and whose opcode is no jump, call,
\* return, skip or FX0A ends with pc two bytes on.
C35_OtherOpcodesAdvanceByTwo ==
  [][(/\ CanFetch /\ ~SetsPc(NextOpcode)
      /\ EmulateCycle /\ status' = "running" /\ err' = "nil")
       => pc' = pc + 2]_vars

\* C37: FX33 leaves the decimal digits of Vx in memory[I], memory[I+1] and
\* memory[I+2], each in 0..9 and 100, 10 and 1 times them adding up to Vx,
\* with V and I unchanged; I + 2 is an address of memory.
C37_BcdDigitsOfVx ==
  [][(/\ CanFetch /\ NextOpcode \div 4096 = 15 /\ NN(NextOpcode) = \h33
      /\ I + 2 <= MemSize - 1
      /\ EmulateCycle)
       => /\ status' = "running" /\ err' = "nil"
          /\ \A i \in 0..2 : memory'[I + i] \in 0..9
          /\ 100 * memory'[I] + 10 * memory'[I + 1] + memory'[I + 2]
               = V[X(NextOpcode)]
          /\ V' = V /\ I' = I]_vars

\* The digits 1, 9, 9 of V0 = 199 are in the last three bytes of memory.
C37_Witness ==
  /\ status = "running" /\ err = "nil"
  /\ result.Opcode = \hF033
  /\ V[0] = 199 /\ I = MemSize - 3
  /\ memory[I] = 1 /\ memory[I + 1] = 9 /\ memory[I + 2] = 9

\* C38: after a cycle that changes a pixel of the display, DXYN or 00E0, the
\* next DrawFlag() returns true.
C38_DisplayChangeSetsTheFlag ==
  [][(EmulateCycle /\ status' = "running" /\ gfx' # gfx)
       => readDrawFlag(cpu').flag]_vars

\* C39: EX9E, EXA1 and FX0A index the keypad only inside 0..15, whatever Vx
\* holds and whether or not a key is down: the cycle runs to its end.
C39_KeyReadsStayOnTheKeypad ==
  [][(CanFetch /\ (IsKeySkip(NextOpcode) \/ IsGetKey(NextOpcode))
        /\ EmulateCycle)
       => status' = "running" /\ err' = "nil"]_vars

C34_OnePressOneUse ==
  \A k \in DOMAIN keyCount : keyCount[k].uses <= keyCount[k].presses

\* Every press of both keys was used: key 15 by skips, key 0 by captures.
C34_Witness ==
  /\ status = "running"
  /\ DOMAIN keyCount = CountedKeys
  /\ \A k \in CountedKeys :
       keyCount[k].presses = MaxPresses /\ keyCount[k].uses = MaxPresses
  /\ V[0] = NumKeys - 1 /\ V[1] = 0
  /\ result.Opcode = \hE09E

\* The values CXNN can leave in Vx from the state it is about to run in.
RandResults ==
  { handler(cpu, NextOpcode, rnd).c.V[X(NextOpcode)] : rnd \in Draws(cpu) }

\* C36: the values CXNN can leave in Vx are exactly r AND NN for r over all
\* 256 byte values: with NN = 0xFF every value 0..255, 255 included.
C36_RandomCoversEveryByte ==
  (CanFetch /\ NextOpcode \div 4096 = 12)
    => RandResults = { BitAnd(r, NN(NextOpcode)) : r \in 0..255 }

====
